---- MODULE Spec2Model ----
(***************************************************************************)
(* Model of the reconciliation and scheduling engine of Beacon:           *)
(* IpMonitor (services/logger.ts, second half), StorageService             *)
(* (services/storage.ts) and the server handlers that drive the monitor.   *)
(*                                                                         *)
(* Node.js runs one task at a time.  A reconciliation cycle                *)
(* (performIpCheck) is suspended only at its awaits: IP detection, the     *)
(* DNS read, and the two requests inside updateDnsRecord.  Every action    *)
(* below is one run-to-completion task: the code from one suspension       *)
(* point to the next, including the promise callbacks (.then/.catch) that  *)
(* run as microtasks when the cycle settles.                               *)
(***************************************************************************)
EXTENDS Naturals, Sequences, FiniteSets

\* ------------------------------------------------------------------ bounds
\* Total number of cycles started in one behaviour of Spec.
MaxCycles == 2
\* Total number of cycles started in one behaviour of SpecFlight.
MaxFlightCycles == 3
\* SpecLimiter: requests of the first client, requests of the second, and
\* the number of times the clock advances.
MaxSent == 102
MaxSentOther == 2
MaxTicks == 2

\* ------------------------------------------------------- program constants
\* storage.ts: "Keep only last 10 entries"
MaxHistory == 10
\* index.ts: parseInt(process.env.CHECK_INTERVAL_MINUTES || '10')
DefaultInterval == 10

Null == "null"
IPs == {"198.51.100.1", "198.51.100.2"}
\* checkIntervalMinutes values a settings update may carry; 61 is refused.
IntervalChoices == {5, 10, 61}

VARIABLES
  isChecking,   \* IpMonitor.isChecking
  status,       \* IpMonitor.status
  interval,     \* IpMonitor.interval: id of the last timer handle, 0 = null
  timers,       \* armed (not yet fired, not cleared) setTimeout timers
  cycles,       \* performIpCheck invocations in flight, with their locals
  config,       \* data/config.json
  history,      \* data/history.json, updates[]
  dnsRecord,    \* content of the A record at the provider, Null = no record
  testCreds,    \* CLOUDFLARE_API_TOKEN / CLOUDFLARE_ZONE_ID contain 'test_'
  forceResult,  \* value a forceCheck() call returned in the latest step,
                \* NoResult if none returned in it
  lastDone,     \* the cycle that ended in the latest step, with its locals,
                \* NoCycle if none ended in it (observer)
  stopped,      \* stop() was called and start() was not called since (observer)
  nextCycle,    \* next fresh cycle id
  det,          \* IpDetector.getCurrentIp(): the call in progress or ended
  cf,           \* CloudflareService.updateDnsRecord(): the call in progress
                \* or ended, and the record as the provider holds it
  proc,         \* the server process: its phase and its environment
  rl,           \* SecurityService.rateLimitStore, the clock, and what the
                \* limiter did with the latest request
  env           \* the environment of this behaviour, fixed at Init:
                \*   ips: the addresses IP detection may report,
                \*   storage: the outcomes of a StorageService call
                \*            (TRUE: it succeeds, FALSE: it throws),
                \*   maxCycles: how many cycles are started at most

vars == <<isChecking, status, interval, timers, cycles, config, history,
          dnsRecord, testCreds, forceResult, lastDone, stopped, nextCycle,
          det, cf, proc, rl, env>>

\* ------------------------------------------------------------- data shapes
NoConfig == [checkIntervalMinutes |-> 0, lastKnownIp |-> Null,
             theme |-> "none"]

NoEntry == [oldIp |-> Null, newIp |-> Null, status |-> "none",
            dnsRecordUpdated |-> FALSE]

\* Mutant of FailedEntry: the failure entry names the error, not 'check_failed'.
FailedEntryUnmarked == [oldIp |-> Null, newIp |-> "error", status |-> "failed",
                        dnsRecordUpdated |-> FALSE]

\* The entry the catch block of performIpCheck records.
FailedEntry == [oldIp |-> Null, newIp |-> "check_failed", status |-> "failed",
                dnsRecordUpdated |-> FALSE]

NoResult == [success |-> FALSE, ipChanged |-> FALSE, currentIp |-> Null,
             message |-> "none"]

\* forceCheck(): the early return taken when isChecking is set.
InProgressResult == [success |-> FALSE, ipChanged |-> FALSE, currentIp |-> Null,
                     message |-> "Check already in progress"]

\* A fresh invocation of performIpCheck, suspended at its first await.
\* pc is the await the cycle is suspended at (and, once it ended, the await
\* after which it ended); currentIp .. updateEntry are its locals; the rest
\* observes what it did: the branch taken (path), the entries it appended,
\* whether it wrote lastKnownIp, whether it issued the provider PUT and what
\* lastKnownIp was then, whether the PUT was acknowledged, how it ended and
\* the status and lastKnownIp it left.
NewCycle(id, origin) ==
  [id |-> id, origin |-> origin, pc |-> "detect",
   currentIp |-> Null, config |-> NoConfig,
   dnsRecordIp |-> Null, dnsRecordAccessible |-> TRUE,
   ipChanged |-> FALSE, dnsUpdateSuccess |-> FALSE,
   updateEntry |-> NoEntry,
   path |-> "none", appended |-> 0, wroteIp |-> FALSE,
   ipAtPut |-> Null, putIssued |-> FALSE, putAcked |-> FALSE,
   storageFailed |-> "none",
   threw |-> FALSE, endStatus |-> "none", endIp |-> Null]

NoCycle == [NewCycle(0, "none") EXCEPT !.pc = "none"]

\* ipDetector.ts: the services of getCurrentIp, in the order it tries them.
PrimaryServices == <<"ipify", "icanhazip">>

\* The longer list of the other IpDetector of the repository.
ExtendedServices == <<"ipify", "icanhazip", "httpbin", "ifconfig.me">>

\* No getCurrentIp() call made yet.  idx and attempt are the service and the
\* loop counter of retryOperation the call is at; requests and failures
\* count, per service, the HTTP requests made and those that were rejected;
\* value is the string the call returned (a sequence of tokens, see Trim).
NoDetection(services) ==
  [services |-> services, outcome |-> "idle", idx |-> 0, attempt |-> 0,
   requests |-> [j \in 1..Len(services) |-> 0],
   failures |-> [j \in 1..Len(services) |-> 0],
   lastError |-> "none", value |-> <<>>]

\* interface CloudflareRecord, without its id; proxied is optional.
NoRecord == [content |-> Null, type |-> "none", name |-> "none", ttl |-> 0,
             proxied |-> "undefined"]

\* The server process once app.listen() has called back: the required
\* environment variables are set, CHECK_INTERVAL_MINUTES is not (the empty
\* digit string), and config.json exists.  settingsResponse is the status
\* code of the latest answer of PUT /api/settings, 0 before the first, and
\* settingsError which test refused it.
Listening ==
  [phase |-> "listening", missing |-> FALSE, intervalEnv |-> <<>>,
   configExists |-> TRUE, settingsResponse |-> 0,
   settingsError |-> "none"]

\* The addresses requests come from (req.ip).
Clients == {"client1", "client2"}

\* rateLimitStore.get(clientIp) of a client without an entry.
NoEntryFor == [count |-> 0, resetTime |-> 0]

\* The rate limiter before any request: Date.now() and the number of times
\* it advanced, and an empty store.  Observers: sent counts each client's
\* requests; window is, per client, the start of the 15-minute window its
\* latest request fell in, and passed the requests of that window handed
\* to next(); client, verdict and retryAfter are those of the request
\* served in the latest step.
NoRequests ==
  [now |-> 0, ticks |-> 0,
   store |-> [c \in Clients |-> NoEntryFor],
   sent |-> [c \in Clients |-> 0],
   window |-> [c \in Clients |-> [open |-> FALSE, start |-> 0]],
   passed |-> [c \in Clients |-> 0],
   client |-> "none", verdict |-> "none", retryAfter |-> 0]

\* No updateDnsRecord() call made yet; record is the provider's A record.
\* read is the record the lookup gave, payload the body of the PUT, acked
\* whether the provider answered the PUT with success, cause why the call
\* returned false.
NoCall(record) ==
  [pc |-> "idle", newIp |-> Null, record |-> record, read |-> NoRecord,
   payload |-> NoRecord, sent |-> FALSE, acked |-> FALSE,
   returned |-> "none", cause |-> "none"]

\* ------------------------------------------------------------ StorageService
\* Mutant of AddUpdateEntry: push in place of unshift.
AddUpdateEntryAtEnd(h, e) ==
  LET u == h \o <<e>>
  IN IF Len(u) > MaxHistory THEN SubSeq(u, 1, MaxHistory) ELSE u

\* Mutant of AddUpdateEntry: the newest stored entry is overwritten.
AddUpdateEntryInPlace(h, e) ==
  IF h = <<>> THEN <<e>> ELSE <<e>> \o Tail(h)

\* addUpdateEntry: unshift, then keep the first 10.
AddUpdateEntry(h, e) ==
  LET u == <<e>> \o h
  IN IF Len(u) > MaxHistory THEN SubSeq(u, 1, MaxHistory) ELSE u

\* Mutant of UpdateLastKnownIp: the file is rewritten from the defaults.
UpdateLastKnownIpFromDefaults(cfg, ip) ==
  [checkIntervalMinutes |-> DefaultInterval, lastKnownIp |-> ip,
   theme |-> "light"]

\* updateLastKnownIp: read-modify-write of the configuration.
UpdateLastKnownIp(cfg, ip) == [cfg EXCEPT !.lastKnownIp = ip]

\* Mutant of Rethrows: the failure is logged and the caller goes on.
RethrowsNever(ok) == FALSE

\* readConfig, writeConfig, readHistory, writeHistory: catch (error) {
\* throw new Error('Failed to ...') }.  ok says whether the file operation
\* succeeded; the result says whether the caller is left by a throw.
Rethrows(ok) == ~ok

\* ----------------------------------------------- IpMonitor: pure decisions
\* Mutant of IpChangedFromStored: === in place of !==.
IpChangedFromStoredInverted(cfg, ip) == cfg.lastKnownIp = ip

\* const ipChangedFromStored = config.lastKnownIp !== currentIp;
IpChangedFromStored(cfg, ip) == cfg.lastKnownIp # ip

\* Mutant of IpChangedFromDns: a missing record is no difference.
IpChangedFromDnsRecord(accessible, dnsIp, ip) ==
  accessible /\ dnsIp # Null /\ dnsIp # ip

\* Mutant of IpChangedFromDns: the accessibility of the DNS read is ignored.
IpChangedFromDnsUnguarded(accessible, dnsIp, ip) == dnsIp # ip

\* const ipChangedFromDns = dnsRecordAccessible && (dnsRecordIp !== currentIp);
IpChangedFromDns(accessible, dnsIp, ip) == accessible /\ dnsIp # ip

\* Mutant of IpChanged: a failed DNS read counts as a change.
IpChangedOrUnreadable(cfg, accessible, dnsIp, ip) ==
  IpChangedFromStored(cfg, ip) \/ ~accessible

\* Mutant of IpChanged: only the stored address is compared.
IpChangedStoredOnly(cfg, accessible, dnsIp, ip) ==
  IpChangedFromStored(cfg, ip)

\* const ipChanged = ipChangedFromStored || ipChangedFromDns;
IpChanged(cfg, accessible, dnsIp, ip) ==
  IpChangedFromStored(cfg, ip) \/ IpChangedFromDns(accessible, dnsIp, ip)

\* Mutant of OldIp: always the stored address.
OldIpStored(dnsIp, cfg) == cfg.lastKnownIp

\* oldIp: dnsRecordIp || config.lastKnownIp
OldIp(dnsIp, cfg) == IF dnsIp # Null THEN dnsIp ELSE cfg.lastKnownIp

\* The updateEntry object built after the provider write returned.
UpdateEntryOf(c, success) ==
  [oldIp |-> OldIp(c.dnsRecordIp, c.config), newIp |-> c.currentIp,
   status |-> IF success THEN "success" ELSE "failed",
   dnsRecordUpdated |-> success]

\* Mutant of IsTestMode: only placeholder credentials count.
IsTestModeCredentialsOnly(tc, accessible) == tc

\* isTestMode: placeholder credentials, or the DNS read was inaccessible.
IsTestMode(tc, accessible) == tc \/ ~accessible

\* Mutant of IntervalMs: the interval the process started with.
IntervalMsAtStart(cfg) == DefaultInterval * 60 * 1000

\* scheduleNextCheck: intervalMs = config.checkIntervalMinutes * 60 * 1000
IntervalMs(cfg) == cfg.checkIntervalMinutes * 60 * 1000

\* Mutant of ForceResultOf: a failed check reports the address it detected.
ForceResultWithIp(c, threw) ==
  IF threw
  THEN [success |-> FALSE, ipChanged |-> c.ipChanged,
        currentIp |-> c.currentIp, message |-> "Check failed"]
  ELSE [success |-> TRUE, ipChanged |-> c.ipChanged, currentIp |-> c.currentIp,
        message |-> IF c.ipChanged THEN "IP address updated"
                    ELSE "No change detected"]

\* forceCheck(): the value returned once the awaited cycle settled.
ForceResultOf(c, threw) ==
  IF threw
  THEN [success |-> FALSE, ipChanged |-> FALSE, currentIp |-> Null,
        message |-> "Check failed"]
  ELSE [success |-> TRUE, ipChanged |-> c.ipChanged, currentIp |-> c.currentIp,
        message |-> IF c.ipChanged THEN "IP address updated"
                    ELSE "No change detected"]

\* ---------------------------------------------------------------- Init
\* The state after construction and initializeDataFiles(), before start().
\* config.json and the provider's record are whatever an earlier run or the
\* operator left; the two addresses being interchangeable, a stored address
\* is taken to be the first one.
Fresh ==
  /\ isChecking = FALSE
  /\ status = "active"
  /\ interval = 0
  /\ timers = {}
  /\ cycles = {}
  /\ config \in {[checkIntervalMinutes |-> DefaultInterval,
                   lastKnownIp |-> ip, theme |-> "light"] :
                   ip \in {Null, "198.51.100.1"}}
  /\ history = <<>>
  /\ dnsRecord \in IPs \cup {Null}
  /\ testCreds \in BOOLEAN
  /\ forceResult = NoResult
  /\ lastDone = NoCycle
  /\ stopped = FALSE
  /\ nextCycle = 1
  /\ det = NoDetection(PrimaryServices)
  /\ cf = NoCall(NoRecord)
  /\ proc = Listening
  /\ rl = NoRequests

\* What may fail in a cycle besides storage: the detection, the reads of
\* the DNS record, the PUT.
Faults == {"detect", "read", "write"}

\* Spec: the address may change between detections; storage works.
DataEnv == [ips |-> IPs, storage |-> {TRUE}, maxCycles |-> MaxCycles,
            faults |-> Faults]

\* SpecFaulty: one address; every storage call may throw.
FaultyEnv == [ips |-> {"198.51.100.1"}, storage |-> BOOLEAN,
              maxCycles |-> MaxCycles,
              faults |-> Faults]

\* SpecFlight: one address, storage works, one more cycle.
FlightEnv == [ips |-> {"198.51.100.1"}, storage |-> {TRUE},
              maxCycles |-> MaxFlightCycles,
              faults |-> Faults]

Init == Fresh /\ env = DataEnv

InitFaulty == Fresh /\ env = FaultyEnv

InitFlight ==
  /\ Fresh
  /\ env = FlightEnv
  /\ config.lastKnownIp = "198.51.100.1"
  /\ dnsRecord = "198.51.100.1"
  /\ testCreds = FALSE

\* SpecHistory: one address, storage works; history.json was left by an
\* earlier run of the process (initializeDataFiles keeps an existing file)
\* with one entry less than the limit, or at the limit.  No address is
\* stored yet, the provider holds another address than the detected one and
\* the credentials are real, so that every way a cycle can end is open.
HistoryEnv == [ips |-> {"198.51.100.1"}, storage |-> {TRUE},
               maxCycles |-> MaxCycles,
              faults |-> Faults]

\* Entries of an earlier run, newest first: failed checks alternating with
\* acknowledged updates.
OldHistory(n) ==
  [i \in 1..n |->
     IF i % 2 = 1
     THEN FailedEntry
     ELSE [oldIp |-> "198.51.100.2", newIp |-> "198.51.100.1",
           status |-> "success", dnsRecordUpdated |-> TRUE]]

InitHistory ==
  /\ isChecking = FALSE
  /\ status = "active"
  /\ interval = 0
  /\ timers = {}
  /\ cycles = {}
  /\ config = [checkIntervalMinutes |-> DefaultInterval, lastKnownIp |-> Null,
               theme |-> "light"]
  /\ history \in {OldHistory(MaxHistory - 1), OldHistory(MaxHistory)}
  /\ dnsRecord = "198.51.100.2"
  /\ testCreds = FALSE
  /\ forceResult = NoResult
  /\ lastDone = NoCycle
  /\ stopped = FALSE
  /\ nextCycle = 1
  /\ det = NoDetection(PrimaryServices)
  /\ cf = NoCall(NoRecord)
  /\ proc = Listening
  /\ rl = NoRequests
  /\ env = HistoryEnv

\* ------------------------------------------------- cycle start and cycle end
\* performIpCheck up to its first await: isChecking = true; status = 'checking'.
Begin(origin) ==
  /\ nextCycle <= env.maxCycles
  /\ isChecking' = TRUE
  /\ status' = "checking"
  /\ cycles' = cycles \cup {NewCycle(nextCycle, origin)}
  /\ nextCycle' = nextCycle + 1
  /\ lastDone' = NoCycle
  /\ forceResult' = NoResult

\* scheduleNextCheck as run by the callbacks chained on a settled cycle of
\* start() or of the timer.  .then(schedule).catch(schedule): a cycle that
\* returned runs scheduleNextCheck, and if that throws (readConfig) the catch
\* callback runs it once more; a cycle that threw runs it once.  s1 and s2
\* say whether the first and the second readConfig succeed.
TimerArmed(threw, s1, s2) == IF threw THEN s1 ELSE s1 \/ s2

\* Mutant of Reschedules: forceCheck() calls scheduleNextCheck as well.
ReschedulesAlways(origin) == TRUE

\* Who chains scheduleNextCheck on the cycle it started: start() and the
\* timer callback do, forceCheck() does not.
Reschedules(origin) == origin \in {"start", "timer"}

\* The callbacks that run when cycle c settles, by who started it.  The
\* timer a cycle arms is named by the cycle's id; at is Date.now() when
\* setTimeout is called.
Continuation(c, threw, cfgNow) ==
  IF Reschedules(c.origin)
  THEN /\ forceResult' = NoResult
       /\ \E s1 \in env.storage :
          \E s2 \in IF threw \/ s1 THEN {TRUE} ELSE env.storage :
            IF TimerArmed(threw, s1, s2)
            THEN /\ timers' = timers \cup
                      {[id |-> c.id, delay |-> IntervalMs(cfgNow),
                        at |-> rl.now]}
                 /\ interval' = c.id
            ELSE UNCHANGED <<timers, interval>>
  ELSE /\ forceResult' = ForceResultOf(c, threw)
       /\ UNCHANGED <<timers, interval>>

\* Mutant of IsCheckingAtEnd: the flag is cleared at the end of the try
\* block only.
IsCheckingUnlessThrown(threw) == threw

\* finally { this.isChecking = false; }: the flag once the cycle has ended,
\* by return or by throw.
IsCheckingAtEnd(threw) == FALSE

\* The end of performIpCheck.  The try block ended with status stTry and
\* history hTry, by return or (threw) by throw.  catch: status = 'error',
\* one more addUpdateEntry (okCatch: it succeeds; its failure is swallowed),
\* rethrow.  finally: isChecking = false.  Then the caller's callbacks.
Settle(c, threw, stTry, hTry, cfgNow) ==
  \E okCatch \in IF threw THEN env.storage ELSE {TRUE} :
    LET caught == threw /\ okCatch
        stEnd  == IF threw THEN "error" ELSE stTry
        done   == [c EXCEPT !.threw = threw, !.endStatus = stEnd,
                            !.endIp = cfgNow.lastKnownIp,
                            !.appended = IF caught THEN @ + 1 ELSE @]
    IN /\ history' = IF caught THEN AddUpdateEntry(hTry, FailedEntry) ELSE hTry
       /\ status' = stEnd
       /\ isChecking' = IsCheckingAtEnd(threw)
       /\ cycles' = {x \in cycles : x.id # c.id}
       /\ lastDone' = done
       /\ Continuation(done, threw, cfgNow)

\* ----------------------------------------------------------- cycle steps
\* A step that leaves its cycle suspended at the next await.
Suspend ==
  /\ forceResult' = NoResult
  /\ lastDone' = NoCycle
  /\ UNCHANGED <<isChecking, status, interval, timers, history>>

\* What a getDnsRecord() call gives: the record, null (no record, or an API
\* error other than 10001/7003), or a throw.
ReadOutcomes == {"record", "null", "throw"}

\* The outcomes the environment leaves open: with a fault excluded the
\* detection gives an address, getDnsRecord() gives what the provider
\* holds, the PUT is acknowledged.
DetectFailures(faults) == IF "detect" \in faults THEN {"fail"} ELSE {}

ReadOutcomesOf(faults) ==
  IF "read" \in faults THEN ReadOutcomes ELSE {"record"}

PutOutcomesOf(faults) == IF "write" \in faults THEN BOOLEAN ELSE {TRUE}

\* IpDetector.getCurrentIp() settled; then config = readConfig(), and the
\* cycle suspends at CloudflareService.getDnsRecord().
DetectDone(c) ==
  /\ c.pc = "detect"
  /\ \E r \in env.ips \cup DetectFailures(env.faults) :
     \E okRead \in IF r = "fail" THEN {TRUE} ELSE env.storage :
       LET c0 == [c EXCEPT !.storageFailed =
                                IF okRead THEN "none" ELSE "readConfig"]
       IN IF r = "fail"
          THEN Settle(c, TRUE, status, history, config)
          ELSE IF Rethrows(okRead)
          THEN Settle(c0, TRUE, status, history, config)
          ELSE /\ cycles' = (cycles \ {c}) \cup
                    {[c0 EXCEPT !.pc = "dnsRead", !.currentIp = r,
                                !.config = config]}
               /\ Suspend
  /\ UNCHANGED <<config, dnsRecord, testCreds, stopped, nextCycle, env,
                 det, cf, proc, rl>>

ReadIp(out) == IF out = "record" THEN dnsRecord ELSE Null

\* getDnsRecord() settled; comparison; no-change branch, or
\* updateLastKnownIp and suspension at updateDnsRecord()'s record lookup.
DnsReadDone(c) ==
  /\ c.pc = "dnsRead"
  /\ \E out \in ReadOutcomesOf(env.faults) :
       LET acc == out # "throw"
           chg == IpChanged(c.config, acc, ReadIp(out), c.currentIp)
           c1  == [c EXCEPT !.dnsRecordIp = ReadIp(out),
                            !.dnsRecordAccessible = acc,
                            !.ipChanged = chg,
                            !.path = IF chg THEN "update" ELSE "nochange"]
       IN IF ~chg
          THEN /\ Settle(c1, FALSE, "active", history, config)
               /\ config' = config
          ELSE \E okWrite \in env.storage :
               LET c2 == [c1 EXCEPT !.storageFailed =
                            IF okWrite THEN "none" ELSE "updateLastKnownIp"]
               IN IF Rethrows(okWrite)
                  THEN /\ Settle(c2, TRUE, status, history, config)
                       /\ config' = config
                  ELSE /\ config' = IF okWrite
                                    THEN UpdateLastKnownIp(config, c.currentIp)
                                    ELSE config
                       /\ cycles' = (cycles \ {c}) \cup
                            {[c2 EXCEPT !.pc = "updLookup",
                                        !.wroteIp = okWrite]}
                       /\ Suspend
  /\ UNCHANGED <<dnsRecord, testCreds, stopped, nextCycle, env, det, cf,
                 proc, rl>>

\* The rest of the changed branch, once updateDnsRecord() returned success:
\* build and store the entry, resolve the status, throw on a failed write
\* under real credentials.
AfterWrite(c, success) ==
  LET c1 == [c EXCEPT !.dnsUpdateSuccess = success,
                      !.updateEntry = UpdateEntryOf(c, success)]
      c2 == [c1 EXCEPT !.appended = @ + 1]
      h1 == AddUpdateEntry(history, c1.updateEntry)
  IN \E okAdd \in env.storage :
       LET c3 == IF okAdd THEN c2
                 ELSE [c1 EXCEPT !.storageFailed = "addUpdateEntry"]
           h3 == IF okAdd THEN h1 ELSE history
       IN IF Rethrows(okAdd)
          THEN Settle(c3, TRUE, status, history, config)
          ELSE IF IsTestMode(testCreds, c.dnsRecordAccessible)
          THEN Settle(c3, FALSE, "active", h3, config)
          ELSE IF success
          THEN Settle(c3, FALSE, "active", h3, config)
          ELSE Settle(c3, TRUE, "error", h3, config)

\* updateDnsRecord(): its getDnsRecord() settled.  A record: the PUT is
\* issued and the cycle suspends on it.  No record or a throw:
\* updateDnsRecord returns false.
UpdLookupDone(c) ==
  /\ c.pc = "updLookup"
  /\ \E out \in ReadOutcomesOf(env.faults) :
       IF out = "record" /\ dnsRecord # Null
       THEN /\ cycles' = (cycles \ {c}) \cup
                 {[c EXCEPT !.pc = "updPut", !.putIssued = TRUE,
                            !.ipAtPut = config.lastKnownIp]}
            /\ Suspend
       ELSE AfterWrite(c, FALSE)
  /\ UNCHANGED <<config, dnsRecord, testCreds, stopped, nextCycle, env,
                 det, cf, proc, rl>>

\* updateDnsRecord(): the PUT settled; acknowledged with success, or not.
UpdPutDone(c) ==
  /\ c.pc = "updPut"
  /\ \E ok \in PutOutcomesOf(env.faults) :
       /\ dnsRecord' = IF ok THEN c.currentIp ELSE dnsRecord
       /\ AfterWrite([c EXCEPT !.putAcked = ok], ok)
  /\ UNCHANGED <<config, testCreds, stopped, nextCycle, env, det, cf, proc, rl>>

\* --------------------------------------------------- IpMonitor public API
\* start(): an immediate cycle; its callbacks schedule the next one.
Start ==
  /\ Begin("start")
  /\ stopped' = FALSE
  /\ UNCHANGED <<interval, timers, config, history, dnsRecord, testCreds, env,
                 det, cf, proc, rl>>

\* clearTimeout(handle): a fired or cleared timer, or null, changes nothing.
ClearTimeout(ts, handle) == {t \in ts : t.id # handle}

\* stop(): clearTimeout(this.interval); this.interval = null.
Stop ==
  /\ timers' = ClearTimeout(timers, interval)
  /\ interval' = 0
  /\ stopped' = TRUE
  /\ lastDone' = NoCycle
  /\ forceResult' = NoResult
  /\ UNCHANGED <<isChecking, status, cycles, config, history, dnsRecord,
                 testCreds, nextCycle, env, det, cf, proc, rl>>

\* The callback of a timer armed by scheduleNextCheck runs: a new cycle.
TimerFires(t) ==
  /\ t \in timers
  /\ timers' = timers \ {t}
  /\ Begin("timer")
  /\ UNCHANGED <<interval, config, history, dnsRecord, testCreds, stopped,
                 env, det, cf, proc, rl>>

\* forceCheck(): rejected while isChecking, else a cycle is awaited.
ForceCheck ==
  IF isChecking
  THEN /\ forceResult' = InProgressResult
       /\ lastDone' = NoCycle
       /\ UNCHANGED <<isChecking, status, interval, timers, cycles, config,
                      history, dnsRecord, testCreds, stopped, nextCycle, env,
                 det, cf, proc, rl>>
  ELSE /\ Begin("force")
       /\ UNCHANGED <<interval, timers, config, history, dnsRecord, testCreds,
                      stopped, env, det, cf, proc, rl>>

\* ipMonitor.stop(); ipMonitor.start();
Restart ==
  /\ timers' = ClearTimeout(timers, interval)
  /\ interval' = 0
  /\ Begin("start")
  /\ stopped' = FALSE

\* PUT /api/settings: the handler's test of checkIntervalMinutes, answered
\* with 400.
IntervalRejected(minutes) == minutes # 0 /\ (minutes < 1 \/ minutes > 60)

\* PUT /api/settings with a checkIntervalMinutes that is accepted: the
\* configuration is rewritten, then ipMonitor.stop(); ipMonitor.start().
PutSettings(minutes) ==
  /\ minutes # 0
  /\ ~IntervalRejected(minutes)
  /\ config' = [config EXCEPT !.checkIntervalMinutes = minutes]
  /\ Restart
  /\ UNCHANGED <<history, dnsRecord, testCreds, env, det, cf, proc, rl>>

Next ==
  \/ Start
  \/ Stop
  \/ ForceCheck
  \/ \E t \in timers : TimerFires(t)
  \/ \E m \in IntervalChoices : PutSettings(m)
  \/ \E c \in cycles : DetectDone(c)
  \/ \E c \in cycles : DnsReadDone(c)
  \/ \E c \in cycles : UpdLookupDone(c)
  \/ \E c \in cycles : UpdPutDone(c)

Spec == Init /\ [][Next]_vars

SpecFaulty == InitFaulty /\ [][Next]_vars

SpecFlight == InitFlight /\ [][Next]_vars

SpecHistory == InitHistory /\ [][Next]_vars

\* ======================================================================
\* IpDetector (services/ipDetector.ts, and the variant with four services)
\* ======================================================================
\* private static readonly MAX_RETRIES = 3;
MAX_RETRIES == 3

\* The variables of the engine, left alone by the detector and the provider
\* client.
engineVars == <<isChecking, status, interval, timers, cycles, config, history,
                dnsRecord, testCreds, forceResult, lastDone, stopped,
                nextCycle, env, proc, rl>>

\* A string is a sequence of tokens; Ws is a run of white space.
Ws == " "

\* String.prototype.trim().
RECURSIVE TrimStart(_)
TrimStart(str) ==
  IF str # <<>> /\ Head(str) = Ws THEN TrimStart(Tail(str)) ELSE str

RECURSIVE TrimEnd(_)
TrimEnd(str) ==
  IF str # <<>> /\ str[Len(str)] = Ws
  THEN TrimEnd(SubSeq(str, 1, Len(str) - 1))
  ELSE str

Trim(str) == TrimEnd(TrimStart(str))

\* A response body: a JSON object with one string field (field = "none": an
\* object without it), or text that is not JSON.
JsonBody(field, str) == [format |-> "json", field |-> field, text |-> str]

TextBody(str) == [format |-> "text", field |-> "none", text |-> str]

\* The bodies a service may answer with.
Bodies ==
  {JsonBody("ip", <<"198.51.100.1">>), JsonBody("ip", <<"unknown">>),
   JsonBody("ip", <<Ws>>), JsonBody("origin", <<"198.51.100.2", Ws>>),
   JsonBody("none", <<>>),
   TextBody(<<"198.51.100.2", Ws>>), TextBody(<<"<html>", Ws>>),
   TextBody(<<>>), TextBody(<<Ws>>)}

\* How one HTTP request settles: the response ended with a status code and a
\* body, or the request timed out, or the socket reported an error.
Responses ==
  {[event |-> e, statusCode |-> 0, body |-> TextBody(<<>>)] :
     e \in {"timeout", "error"}}
  \cup {[event |-> "end", statusCode |-> 503, body |-> TextBody(<<"busy">>)]}
  \cup {[event |-> "end", statusCode |-> 200, body |-> b] : b \in Bodies}

Resolve(value) == [ok |-> TRUE, value |-> value, error |-> "none"]

Reject(error) == [ok |-> FALSE, value |-> <<>>, error |-> error]

\* url.includes('ipify') / url.includes('httpbin'): the field read from the
\* parsed JSON; "none" for the services that answer in plain text.
FieldOf(service) ==
  IF service = "ipify" THEN "ip"
  ELSE IF service = "httpbin" THEN "origin"
  ELSE "none"

\* The text of a body as a plain-text service reads it: a JSON document is
\* text as well.
DataOf(body) == IF body.format = "json" THEN <<"{json}">> ELSE body.text

\* httpRequest(url): reject on timeout, on error and on a status other than
\* 200; JSON.parse and the field (a throw rejects), or the body; trim;
\* reject when empty; resolve with the string otherwise.
HttpRequest(service, resp) ==
  IF resp.event # "end" THEN Reject(resp.event)
  ELSE IF resp.statusCode # 200 THEN Reject("http")
  ELSE IF FieldOf(service) # "none"
  THEN IF resp.body.format # "json" \/ resp.body.field # FieldOf(service)
       THEN Reject("format")
       ELSE IF Trim(resp.body.text) = <<>> THEN Reject("format")
       ELSE Resolve(Trim(resp.body.text))
  ELSE IF Trim(DataOf(resp.body)) = <<>> THEN Reject("format")
       ELSE Resolve(Trim(DataOf(resp.body)))

\* Mutant of RetryAgain: the loop runs while attempt < MAX_RETRIES.
RetryAgainExclusive(attempt) == attempt + 1 < MAX_RETRIES

\* retryOperation: for (attempt = 0; attempt <= MAX_RETRIES; attempt++):
\* after a failure at `attempt` the loop runs again if attempt + 1 <= 3.
RetryAgain(attempt) == attempt + 1 <= MAX_RETRIES

\* Mutant of HasNextService: the failure of the first service is final.
HasNoFallback(d) == FALSE

\* getCurrentIp: a service follows the one that failed.
HasNextService(d) == d.idx < Len(d.services)

\* A request of the call d was rejected: retry, next service, or throw.
OnReject(d, error) ==
  IF RetryAgain(d.attempt)
  THEN [d EXCEPT !.attempt = @ + 1, !.lastError = error]
  ELSE IF HasNextService(d)
  THEN [d EXCEPT !.idx = @ + 1, !.attempt = 0, !.lastError = error]
  ELSE [d EXCEPT !.outcome = "raised", !.lastError = error]

\* Mutant of OnResolve: the answer is kept but detection goes on.
OnResolveContinue(d, value) == OnReject([d EXCEPT !.value = value], "none")

\* A request of the call d resolved: retryOperation returns, getCurrentIp
\* returns.
OnResolve(d, value) == [d EXCEPT !.outcome = "returned", !.value = value]

\* getCurrentIp() is called: the first request to the first service is made.
GetCurrentIp ==
  /\ det.outcome # "running"
  /\ det' = [NoDetection(det.services) EXCEPT !.outcome = "running", !.idx = 1]
  /\ UNCHANGED <<engineVars, cf>>

\* The request in progress settles.
HttpSettles(resp) ==
  /\ det.outcome = "running"
  /\ LET r == HttpRequest(det.services[det.idx], resp)
         d == [det EXCEPT !.requests[det.idx] = @ + 1,
                          !.failures[det.idx] = IF r.ok THEN @ ELSE @ + 1]
     IN det' = IF r.ok THEN OnResolve(d, r.value) ELSE OnReject(d, r.error)
  /\ UNCHANGED <<engineVars, cf>>

InitDetect ==
  /\ isChecking = FALSE
  /\ status = "active"
  /\ interval = 0
  /\ timers = {}
  /\ cycles = {}
  /\ config = [checkIntervalMinutes |-> DefaultInterval, lastKnownIp |-> Null,
               theme |-> "light"]
  /\ history = <<>>
  /\ dnsRecord = Null
  /\ testCreds = FALSE
  /\ forceResult = NoResult
  /\ lastDone = NoCycle
  /\ stopped = FALSE
  /\ nextCycle = 1
  /\ env = DataEnv
  /\ det \in {NoDetection(PrimaryServices), NoDetection(ExtendedServices)}
  /\ cf = NoCall(NoRecord)
  /\ proc = Listening
  /\ rl = NoRequests

NextDetect ==
  \/ GetCurrentIp
  \/ \E resp \in Responses : HttpSettles(resp)

SpecDetect == InitDetect /\ [][NextDetect]_vars

\* ======================================================================
\* CloudflareService (services/cloudflare.ts)
\* ======================================================================
\* The A records the provider may hold for DNS_RECORD_NAME (ttl 1: automatic).
Records ==
  {[content |-> ip, type |-> "A", name |-> "home.example.com", ttl |-> t,
    proxied |-> p] :
     ip \in IPs, t \in {1, 300}, p \in {"true", "false", "undefined"}}

\* How a makeRequest() call settles: the parsed response body (success, and
\* the code of errors[0], 0 if there is none), or a timeout, a socket error
\* or a body that is not JSON.
ApiResponses ==
  {[event |-> e, success |-> FALSE, code |-> 0] :
     e \in {"timeout", "error", "invalid"}}
  \cup {[event |-> "end", success |-> FALSE, code |-> c] :
          c \in {0, 1003, 7003, 10001}}
  \cup {[event |-> "end", success |-> TRUE, code |-> 0]}

\* makeRequest rejects: timeout, socket error, JSON.parse throws.
MakeRequestThrows(resp) == resp.event # "end"

\* getDnsRecord(): throws when the request is rejected and on the error
\* codes 10001 and 7003; null (NoRecord) on any other error response and on
\* an empty result; else result[0], the record the provider holds.
GetDnsRecord(resp, record) ==
  IF MakeRequestThrows(resp) THEN [thrown |-> TRUE, record |-> NoRecord]
  ELSE IF ~resp.success
  THEN IF resp.code \in {10001, 7003}
       THEN [thrown |-> TRUE, record |-> NoRecord]
       ELSE [thrown |-> FALSE, record |-> NoRecord]
  ELSE [thrown |-> FALSE, record |-> record]

\* existingRecord.proxied || false
OrFalse(proxied) == IF proxied = "true" THEN "true" ELSE "false"

\* updateRecord(): the payload of the PUT.
UpdateRecordPayload(existingRecord, newIp) ==
  [content |-> newIp, type |-> existingRecord.type,
   name |-> existingRecord.name, ttl |-> existingRecord.ttl,
   proxied |-> OrFalse(existingRecord.proxied)]

\* Mutant of UpdateRecordThrows: response.success is not looked at.
UpdateRecordThrowsOnReject(resp) == MakeRequestThrows(resp)

\* updateRecord(): throws when the request is rejected and when the
\* response does not say success.
UpdateRecordThrows(resp) == MakeRequestThrows(resp) \/ ~resp.success

\* updateDnsRecord(): try { ... return true } catch { return false }.
UpdateDnsRecordReturn(thrown) == IF thrown THEN "false" ELSE "true"

\* updateDnsRecord(newIp) is called: the record lookup is sent.
CallUpdateDnsRecord(newIp) ==
  /\ cf.pc \in {"idle", "done"}
  /\ cf' = [NoCall(cf.record) EXCEPT !.pc = "lookup", !.newIp = newIp]
  /\ UNCHANGED <<engineVars, det>>

\* The lookup settles: no record (thrown or null) ends the call, a record
\* makes updateRecord send the PUT.
LookupSettles(resp) ==
  /\ cf.pc = "lookup"
  /\ LET g == GetDnsRecord(resp, cf.record)
     IN cf' = IF g.thrown \/ g.record = NoRecord
              THEN [cf EXCEPT !.pc = "done",
                              !.returned = UpdateDnsRecordReturn(TRUE),
                              !.cause = IF g.thrown THEN "lookup failed"
                                        ELSE "not found"]
              ELSE [cf EXCEPT !.pc = "put", !.read = g.record, !.sent = TRUE,
                              !.payload =
                                 UpdateRecordPayload(g.record, cf.newIp)]
  /\ UNCHANGED <<engineVars, det>>

\* The PUT settles.  The provider stores the payload when it answers with
\* success.
PutSettles(resp) ==
  /\ cf.pc = "put"
  /\ LET acked == resp.event = "end" /\ resp.success
     IN cf' = [cf EXCEPT !.pc = "done", !.acked = acked,
                         !.record = IF acked THEN cf.payload ELSE @,
                         !.returned =
                            UpdateDnsRecordReturn(UpdateRecordThrows(resp)),
                         !.cause = IF acked THEN "none"
                                   ELSE IF resp.event = "end" THEN "refused"
                                   ELSE resp.event]
  /\ UNCHANGED <<engineVars, det>>

InitProvider ==
  /\ isChecking = FALSE
  /\ status = "active"
  /\ interval = 0
  /\ timers = {}
  /\ cycles = {}
  /\ config = [checkIntervalMinutes |-> DefaultInterval, lastKnownIp |-> Null,
               theme |-> "light"]
  /\ history = <<>>
  /\ dnsRecord = Null
  /\ testCreds = FALSE
  /\ forceResult = NoResult
  /\ lastDone = NoCycle
  /\ stopped = FALSE
  /\ nextCycle = 1
  /\ env = DataEnv
  /\ det = NoDetection(PrimaryServices)
  /\ cf \in {NoCall(r) : r \in Records \cup {NoRecord}}
  /\ proc = Listening
  /\ rl = NoRequests

NextProvider ==
  \/ \E ip \in IPs : CallUpdateDnsRecord(ip)
  \/ \E resp \in ApiResponses : LookupSettles(resp)
  \/ \E resp \in ApiResponses : PutSettles(resp)

SpecProvider == InitProvider /\ [][NextProvider]_vars

\* ======================================================================
\* The running engine with a provider that recovers
\* ======================================================================
\* SpecConverge: one address, storage works, the provider holds a record
\* with another address, the credentials are real.  Detection, reads and
\* writes may fail until the provider and the network recover.
ConvergeEnv == [ips |-> {"198.51.100.1"}, storage |-> {TRUE},
                maxCycles |-> MaxCycles, faults |-> Faults]

InitConverge ==
  /\ Fresh
  /\ env = ConvergeEnv
  /\ dnsRecord = "198.51.100.2"
  /\ testCreds = FALSE

\* startServer(): the one call of ipMonitor.start().
Boot == nextCycle = 1 /\ Start

\* From here on every detection gives the address and every provider read
\* and write succeeds.  Taken while a cycle can still begin.
ProviderRecovers ==
  /\ env.faults # {}
  /\ nextCycle <= env.maxCycles
  /\ env' = [env EXCEPT !.faults = {}]
  /\ lastDone' = NoCycle
  /\ forceResult' = NoResult
  /\ UNCHANGED <<isChecking, status, interval, timers, cycles, config,
                 history, dnsRecord, testCreds, stopped, nextCycle, det, cf,
                 proc, rl>>

NextConverge ==
  \/ Boot
  \/ ProviderRecovers
  \/ \E t \in timers : TimerFires(t)
  \/ \E c \in cycles : DetectDone(c)
  \/ \E c \in cycles : DnsReadDone(c)
  \/ \E c \in cycles : UpdLookupDone(c)
  \/ \E c \in cycles : UpdPutDone(c)

\* start() is called, an armed timer fires, an awaited promise settles.
FairConverge ==
  /\ WF_vars(Boot)
  /\ WF_vars(\E t \in timers : TimerFires(t))
  /\ WF_vars(\E c \in cycles : DetectDone(c))
  /\ WF_vars(\E c \in cycles : DnsReadDone(c))
  /\ WF_vars(\E c \in cycles : UpdLookupDone(c))
  /\ WF_vars(\E c \in cycles : UpdPutDone(c))

SpecConverge == InitConverge /\ [][NextConverge]_vars /\ FairConverge

\* ======================================================================
\* The engine with a clock (getNextCheckTime)
\* ======================================================================
\* getNextCheckTime(): new Date(Date.now() + intervalMs), intervalMs from
\* the configuration read at the call.
GetNextCheckTime(cfg, now) == now + IntervalMs(cfg)

\* Date.now() advances by ms.  An armed timer fires when it is due, so the
\* clock does not pass a deadline.
ClockAdvances(ms) ==
  /\ ms > 0
  /\ rl.ticks < MaxTicks
  /\ \A t \in timers : rl.now + ms <= t.at + t.delay
  /\ rl' = [rl EXCEPT !.now = @ + ms, !.ticks = @ + 1]
  /\ lastDone' = NoCycle
  /\ forceResult' = NoResult
  /\ UNCHANGED <<isChecking, status, interval, timers, cycles, config,
                 history, dnsRecord, testCreds, stopped, nextCycle, env, det,
                 cf, proc>>

\* The timer t fires: its delay has elapsed.
TimerDue(t) ==
  /\ rl.now >= t.at + t.delay
  /\ TimerFires(t)

\* SpecNextCheck: one address, already stored and held by the provider;
\* start() is called once; the clock advances by a minute or up to the
\* deadline of an armed timer.
InitNextCheck ==
  /\ Fresh
  /\ env = [ips |-> {"198.51.100.1"}, storage |-> {TRUE},
            maxCycles |-> MaxCycles, faults |-> Faults]
  /\ config.lastKnownIp = "198.51.100.1"
  /\ dnsRecord = "198.51.100.1"
  /\ testCreds = FALSE

NextNextCheck ==
  \/ Boot
  \/ \E ms \in {60 * 1000} \cup {t.at + t.delay - rl.now : t \in timers} :
       ClockAdvances(ms)
  \/ \E t \in timers : TimerDue(t)
  \/ \E c \in cycles : DetectDone(c)
  \/ \E c \in cycles : DnsReadDone(c)
  \/ \E c \in cycles : UpdLookupDone(c)
  \/ \E c \in cycles : UpdPutDone(c)

SpecNextCheck == InitNextCheck /\ [][NextNextCheck]_vars

\* ======================================================================
\* Server startup (startServer)
\* ======================================================================
\* Values of CHECK_INTERVAL_MINUTES, as digit strings.
EnvIntervals == {<<>>, <<5>>, <<0>>, <<1, 2, 0>>}

\* parseInt of a string of decimal digits.
RECURSIVE ParseInt(_)
ParseInt(str) ==
  IF str = <<>> THEN 0
  ELSE ParseInt(SubSeq(str, 1, Len(str) - 1)) * 10 + str[Len(str)]

\* defaultConfig: parseInt(process.env.CHECK_INTERVAL_MINUTES || '10'),
\* lastKnownIp: null.
DefaultConfig(intervalEnv) ==
  [checkIntervalMinutes |->
     ParseInt(IF intervalEnv = <<>> THEN <<1, 0>> ELSE intervalEnv),
   lastKnownIp |-> Null, theme |-> "light"]

\* initializeDataFiles: config.json is created only if it does not exist.
InitializeDataFiles(p, cfg) ==
  IF p.configExists THEN cfg ELSE DefaultConfig(p.intervalEnv)

\* validateEnvironment: process.exit(1) when CLOUDFLARE_API_TOKEN,
\* CLOUDFLARE_ZONE_ID or DNS_RECORD_NAME is missing.
ValidateEnvironmentExits(missing) == missing

\* startServer(): validateEnvironment(); initializeDataFiles();
\* app.listen(PORT, () => ipMonitor.start()).
StartServer ==
  /\ proc.phase = "starting"
  /\ IF ValidateEnvironmentExits(proc.missing)
     THEN /\ proc' = [proc EXCEPT !.phase = "exited"]
          /\ UNCHANGED <<isChecking, status, interval, timers, cycles, config,
                         history, dnsRecord, testCreds, forceResult, lastDone,
                         stopped, nextCycle, env, det, cf, rl>>
     ELSE /\ proc' = [proc EXCEPT !.phase = "listening",
                                  !.configExists = TRUE]
          /\ config' = InitializeDataFiles(proc, config)
          /\ Begin("start")
          /\ stopped' = FALSE
          /\ UNCHANGED <<interval, timers, history, dnsRecord, testCreds, env,
                         det, cf, rl>>

\* SpecStartup: the process before startServer().  One address, storage
\* works; no address is stored and the provider holds another address than
\* the detected one.  A missing credential is not a placeholder.
StartupEnv == [ips |-> {"198.51.100.1"}, storage |-> {TRUE},
               maxCycles |-> MaxCycles,
              faults |-> Faults]

InitStartup ==
  /\ isChecking = FALSE
  /\ status = "active"
  /\ interval = 0
  /\ timers = {}
  /\ cycles = {}
  /\ proc \in [phase : {"starting"}, missing : BOOLEAN,
               intervalEnv : EnvIntervals, configExists : BOOLEAN,
               settingsResponse : {0}, settingsError : {"none"}]
  /\ config = IF proc.configExists
              THEN [checkIntervalMinutes |-> DefaultInterval,
                    lastKnownIp |-> Null, theme |-> "light"]
              ELSE NoConfig
  /\ history = <<>>
  /\ dnsRecord = "198.51.100.2"
  /\ testCreds \in IF proc.missing THEN {FALSE} ELSE BOOLEAN
  /\ forceResult = NoResult
  /\ lastDone = NoCycle
  /\ stopped = FALSE
  /\ nextCycle = 1
  /\ det = NoDetection(PrimaryServices)
  /\ cf = NoCall(NoRecord)
  /\ rl = NoRequests
  /\ env = StartupEnv

\* Requests and callbacks are served only once the server listens.
Serving == proc.phase = "listening" /\ Next

NextStartup == StartServer \/ Serving

SpecStartup == InitStartup /\ [][NextStartup]_vars

\* ======================================================================
\* SecurityService.createRateLimiter
\* ======================================================================
WindowMs == 15 * 60 * 1000

\* maxRequests with NODE_ENV = 'production'.
MaxRequests == 100

\* now > value.resetTime
Expired(now, resetTime) == now > resetTime

\* Mutant of LimitReached: one request more is let through.
LimitExceeded(count) == count > MaxRequests

\* clientData.count >= maxRequests
LimitReached(count) == count >= MaxRequests

\* Math.ceil((clientData.resetTime - now) / 1000)
RetryAfter(resetTime, now) == (resetTime - now + 999) \div 1000

\* 'Clean expired entries'
Cleaned(store, now) ==
  [k \in Clients |->
     IF store[k] # NoEntryFor /\ Expired(now, store[k].resetTime)
     THEN NoEntryFor ELSE store[k]]

\* The middleware on one request of client: what it answers and the store
\* it leaves.
RateLimiter(store, now, client) ==
  LET cleaned    == Cleaned(store, now)
      clientData == cleaned[client]
  IN IF clientData = NoEntryFor \/ Expired(now, clientData.resetTime)
     THEN [verdict |-> "next", retryAfter |-> 0,
           store |-> [cleaned EXCEPT
                        ![client] = [count |-> 1,
                                     resetTime |-> now + WindowMs]]]
     ELSE IF LimitReached(clientData.count)
     THEN [verdict |-> "429",
           retryAfter |-> RetryAfter(clientData.resetTime, now),
           store |-> cleaned]
     ELSE [verdict |-> "next", retryAfter |-> 0,
           store |-> [cleaned EXCEPT ![client].count = @ + 1]]

\* A request to /api/ arrives from client.
Request(client) ==
  /\ rl.sent[client] < (IF client = "client1" THEN MaxSent ELSE MaxSentOther)
  /\ LET r     == RateLimiter(rl.store, rl.now, client)
         w     == rl.window[client]
         fresh == ~w.open \/ rl.now > w.start + WindowMs
         one   == IF r.verdict = "next" THEN 1 ELSE 0
     IN rl' = [rl EXCEPT
                 !.store = r.store,
                 !.sent[client] = @ + 1,
                 !.window[client] = IF fresh
                                    THEN [open |-> TRUE, start |-> rl.now]
                                    ELSE w,
                 !.passed[client] = IF fresh THEN one ELSE @ + one,
                 !.client = client,
                 !.verdict = r.verdict,
                 !.retryAfter = r.retryAfter]
  /\ UNCHANGED <<isChecking, status, interval, timers, cycles, config,
                 history, dnsRecord, testCreds, forceResult, lastDone,
                 stopped, nextCycle, env, det, cf, proc>>

\* Date.now() advances, by a millisecond or by the length of a window.
Tick(ms) ==
  /\ rl.ticks < MaxTicks
  /\ rl' = [rl EXCEPT !.now = @ + ms, !.ticks = @ + 1, !.client = "none",
                       !.verdict = "none", !.retryAfter = 0]
  /\ UNCHANGED <<isChecking, status, interval, timers, cycles, config,
                 history, dnsRecord, testCreds, forceResult, lastDone,
                 stopped, nextCycle, env, det, cf, proc>>

InitLimiter ==
  /\ isChecking = FALSE
  /\ status = "active"
  /\ interval = 0
  /\ timers = {}
  /\ cycles = {}
  /\ config = [checkIntervalMinutes |-> DefaultInterval, lastKnownIp |-> Null,
               theme |-> "light"]
  /\ history = <<>>
  /\ dnsRecord = Null
  /\ testCreds = FALSE
  /\ forceResult = NoResult
  /\ lastDone = NoCycle
  /\ stopped = FALSE
  /\ nextCycle = 1
  /\ env = DataEnv
  /\ det = NoDetection(PrimaryServices)
  /\ cf = NoCall(NoRecord)
  /\ proc = Listening
  /\ rl = NoRequests

NextLimiter ==
  \/ \E client \in Clients : Request(client)
  \/ \E ms \in {1, WindowMs} : Tick(ms)

SpecLimiter == InitLimiter /\ [][NextLimiter]_vars

\* ======================================================================
\* API responses (SecurityService.obfuscateIp and the handlers that use it)
\* ======================================================================
\* ip.split('.'): the parts of a string between its dots.
Split(ip) ==
  CASE ip = "198.51.100.1" -> <<"198", "51", "100", "1">>
    [] ip = "198.51.100.2" -> <<"198", "51", "100", "2">>
    [] OTHER -> <<ip>>

\* obfuscateIp(ip), the result given by its parts between dots: null gives
\* 'Unknown', 'check_failed' itself, four parts give first.xxx.xxx.last,
\* any other string without a colon xxx.xxx.xxx.xxx.
ObfuscateIp(ip) ==
  IF ip = Null THEN <<"Unknown">>
  ELSE IF ip = "check_failed" THEN <<ip>>
  ELSE LET parts == Split(ip)
       IN IF Len(parts) = 4
          THEN <<parts[1], "xxx", "xxx", parts[4]>>
          ELSE <<"xxx", "xxx", "xxx", "xxx">>

\* GET /api/status
StatusResponse ==
  [currentIp |-> ObfuscateIp(config.lastKnownIp), status |-> status,
   checkIntervalMinutes |-> config.checkIntervalMinutes]

\* GET /api/history
HistoryResponse ==
  [i \in 1..Len(history) |->
     [history[i] EXCEPT !.oldIp = ObfuscateIp(@), !.newIp = ObfuscateIp(@)]]

\* POST /api/force-update, once forceCheck() has returned result.
ForceUpdateResponse(result) ==
  [result EXCEPT !.currentIp = ObfuscateIp(@)]

\* ======================================================================
\* PUT /api/settings: the whole handler (public/client.js)
\* ======================================================================

\* req.body as express.json() hands it over: an object.  unknownKey says
\* whether it has a key other than checkIntervalMinutes and theme; each of
\* the two fields is absent ("undefined") or has a JSON type and a value.
IntervalFields ==
  {[type |-> "undefined", value |-> 0], [type |-> "string", value |-> 0]}
    \cup [type : {"number"}, value : IntervalChoices \cup {0}]

ThemeFields ==
  {[type |-> "undefined", value |-> ""], [type |-> "number", value |-> ""]}
    \cup [type : {"string"}, value : {"", "dark", "blue"}]

SettingsBodies ==
  [unknownKey : BOOLEAN, checkIntervalMinutes : IntervalFields,
   theme : ThemeFields]

\* SecurityService.validateSettingsInput
ValidateSettingsInput(body) ==
  /\ ~body.unknownKey
  /\ body.checkIntervalMinutes.type \in {"undefined", "number"}
  /\ body.theme.type \in {"undefined", "string"}

\* if (checkIntervalMinutes): a number other than 0.  Only read once
\* validateSettingsInput has passed.
IntervalGiven(body) ==
  body.checkIntervalMinutes.type = "number"
    /\ body.checkIntervalMinutes.value # 0

\* if (theme): a string other than "".
ThemeGiven(body) == body.theme.type = "string" /\ body.theme.value # ""

\* theme && !['light', 'dark'].includes(theme)
ThemeRejected(body) ==
  ThemeGiven(body) /\ body.theme.value \notin {"light", "dark"}

\* The error of the 400 answer the handler returns with, "none" when it
\* goes on to store the settings.
SettingsError(body) ==
  IF ~ValidateSettingsInput(body) THEN "input"
  ELSE IF IntervalGiven(body)
            /\ IntervalRejected(body.checkIntervalMinutes.value)
       THEN "interval"
  ELSE IF ThemeRejected(body) THEN "theme"
  ELSE "none"

\* config as the handler writes it: the fields that are given replace the
\* stored ones.
SettingsApplied(body, cfg) ==
  [cfg EXCEPT
     !.checkIntervalMinutes =
        IF IntervalGiven(body) THEN body.checkIntervalMinutes.value ELSE @,
     !.theme = IF ThemeGiven(body) THEN body.theme.value ELSE @]

\* The handler's answer.
Answered(code, error) ==
  proc' = [proc EXCEPT !.settingsResponse = code, !.settingsError = error]

\* A 400 answer that is sent without leaving the handler.
ReturnsNever(error) == FALSE

\* return res.status(400).json(...): the handler ends with the answer.
Returns(error) == error # "none"

\* PUT /api/settings, from the request to the answer: no await in between.
PutSettingsRequest(body) ==
  LET error == SettingsError(body)
      written == ~Returns(error)
  IN /\ Answered(IF error = "none" THEN 200 ELSE 400, error)
     /\ config' = IF written THEN SettingsApplied(body, config) ELSE config
     /\ IF written /\ IntervalGiven(body)
        THEN Restart
        ELSE /\ lastDone' = NoCycle
             /\ forceResult' = NoResult
             /\ UNCHANGED <<isChecking, status, interval, timers, cycles,
                            stopped, nextCycle>>
     /\ UNCHANGED <<history, dnsRecord, testCreds, env, det, cf, rl>>

\* SpecSettings: the server is listening, one address, storage and the
\* provider work, no address is stored yet and the provider's record holds
\* another address than the detected one.
SettingsEnv == [ips |-> {"198.51.100.1"}, storage |-> {TRUE},
                maxCycles |-> MaxCycles,
                faults |-> {}]

InitSettings ==
  /\ Fresh
  /\ env = SettingsEnv
  /\ config.lastKnownIp = Null
  /\ dnsRecord = "198.51.100.2"
  /\ testCreds = FALSE

NextSettings ==
  \/ Boot
  \/ \E body \in SettingsBodies : PutSettingsRequest(body)
  \/ \E t \in timers : TimerFires(t)
  \/ \E c \in cycles : DetectDone(c)
  \/ \E c \in cycles : DnsReadDone(c)
  \/ \E c \in cycles : UpdLookupDone(c)
  \/ \E c \in cycles : UpdPutDone(c)

SpecSettings == InitSettings /\ [][NextSettings]_vars

\* ======================================================================
\* Properties
\* ======================================================================
\* The cycles in flight and the one that ended in the latest step.
Observed == cycles \cup (IF lastDone.id = 0 THEN {} ELSE {lastDone})

\* The cycle went through the comparison of the three addresses.
Compared(c) == c.path # "none"

\* C1: at every instant at most one reconciliation cycle is in flight.
\* (Violated: only forceCheck() tests isChecking; start() and the timer
\* callback start a cycle whatever the flag says.)
SingleFlight == Cardinality(cycles) <= 1

\* C2: a forceCheck() call made while a cycle is in flight returns
\* 'Check already in progress', starts no cycle and leaves status,
\* configuration and history unchanged.
\* (Violated: of two overlapping cycles the first to end clears isChecking.)
ForceCheckRejectedInFlight ==
  [][(ForceCheck /\ cycles # {}) =>
       /\ forceResult' = InProgressResult
       /\ cycles' = cycles
       /\ status' = status
       /\ config' = config
       /\ history' = history]_vars

\* C3: between stop() and the next start() no timer is armed and no timer
\* starts a cycle, also when stop() was called while a cycle was in flight.
\* (Violated: the callbacks of the cycle in flight call scheduleNextCheck.)
NothingRunsAfterStop ==
  [][(stopped /\ stopped') =>
       /\ timers' \subseteq timers
       /\ \A c \in cycles' : c.origin = "timer" => \E d \in cycles : d.id = c.id]_vars

\* C4: a cycle that computed changed = true appended exactly one history
\* entry, a cycle that computed changed = false appended none.
\* (Violated: a failed write under real credentials throws inside the try
\* block, and the catch block appends a second, 'check_failed' entry.)
OneEntryPerChangedCycle ==
  /\ lastDone.path = "update" => lastDone.appended = 1
  /\ lastDone.path = "nochange" => lastDone.appended = 0

\* C5: when a cycle of start() or of the timer has ended and stop() was not
\* called, the timer of the next cycle is armed.
\* (Violated: scheduleNextCheck reads the configuration first; when that
\* read throws in the catch callback nothing arms a timer.)
AlwaysRescheduled ==
  (lastDone.origin \in {"start", "timer"} /\ ~stopped) =>
    \E t \in timers : t.id = lastDone.id /\ interval = t.id

\* C6: the timer armed when a cycle ends has the delay given by the
\* checkIntervalMinutes stored at that moment.
DelayIsCurrentInterval ==
  \A t \in timers :
    t.id = lastDone.id => t.delay = config.checkIntervalMinutes * 60000

\* C6 witness: a cycle armed its timer after the interval was changed while
\* it ran: the stored interval is neither the one the cycle read nor the one
\* the process started with.
DelayAfterIntervalChange ==
  /\ \E t \in timers : t.id = lastDone.id
  /\ lastDone.config # NoConfig
  /\ lastDone.config.checkIntervalMinutes # config.checkIntervalMinutes
  /\ config.checkIntervalMinutes # DefaultInterval

\* The three addresses of cycle c agree.
AllEqual(c) ==
  /\ Compared(c)
  /\ c.dnsRecordAccessible
  /\ c.currentIp = c.config.lastKnownIp
  /\ c.currentIp = c.dnsRecordIp

\* C7: a cycle whose detected address equals the stored one it read and the
\* content of the record it read issues no provider write, appends no entry,
\* does not write lastKnownIp and ends with status active.
NoOpWhenAllEqual ==
  \A c \in Observed :
    AllEqual(c) =>
      /\ c = lastDone
      /\ ~c.threw
      /\ ~c.putIssued
      /\ c.appended = 0
      /\ ~c.wroteIp
      /\ status = "active"

\* C7 witness: a cycle ended with the three addresses equal.
AllEqualCycleEnded == AllEqual(lastDone)

\* C8: a cycle takes the update path (it rewrites lastKnownIp) exactly when
\* stored # detected, or the DNS read was accessible and record # detected.
UpdateExactlyWhenChanged ==
  \A c \in Observed :
    Compared(c) =>
      (c.wroteIp <=>
         \/ c.config.lastKnownIp # c.currentIp
         \/ (c.dnsRecordAccessible /\ c.dnsRecordIp # c.currentIp))

\* C8 witness: the DNS read failed, the record at the provider differs from
\* the detected address, the stored address equals it: no update.
InaccessibleMismatchIgnored ==
  /\ Compared(lastDone)
  /\ ~lastDone.dnsRecordAccessible
  /\ dnsRecord # lastDone.currentIp
  /\ ~lastDone.wroteIp

\* C9: in a changed cycle lastKnownIp equals the detected address when the
\* provider write is issued, and when the cycle has ended.
\* (Violated: an overlapping cycle, see C1, that detected another address
\* rewrites lastKnownIp in between.)
PersistedBeforeWrite ==
  \A c \in Observed :
    /\ c.putIssued => c.ipAtPut = c.currentIp
    /\ (c = lastDone /\ c.wroteIp) => c.endIp = c.currentIp

\* C10: the entry a changed cycle appends has oldIp = the address of the
\* DNS read if it gave one, else the stored address the cycle read; newIp =
\* the detected address; status success exactly when the provider
\* acknowledged the write; dnsRecordUpdated = that flag; and it is the entry
\* the cycle put in the history.
EntryOfChangedCycle ==
  lastDone.updateEntry # NoEntry =>
    /\ lastDone.updateEntry.oldIp =
         (IF lastDone.dnsRecordIp # Null THEN lastDone.dnsRecordIp
          ELSE lastDone.config.lastKnownIp)
    /\ lastDone.updateEntry.newIp = lastDone.currentIp
    /\ (lastDone.updateEntry.status = "success") <=> lastDone.putAcked
    /\ lastDone.updateEntry.status \in {"success", "failed"}
    /\ lastDone.updateEntry.dnsRecordUpdated = lastDone.putAcked
    /\ lastDone.appended \in {1, 2}
    /\ history[lastDone.appended] = lastDone.updateEntry

\* C10 witness: a changed cycle whose DNS read gave an address other than
\* the stored one, and whose write was acknowledged, appended its entry.
EntryWithDnsOldIp ==
  /\ lastDone.updateEntry # NoEntry
  /\ lastDone.updateEntry.status = "success"
  /\ lastDone.dnsRecordIp # Null
  /\ lastDone.dnsRecordIp # lastDone.config.lastKnownIp

\* C11: a changed cycle ends with status active if the provider acknowledged
\* the write, or the credentials are placeholders, or its DNS read was
\* inaccessible; every other changed cycle ends with status error (and
\* throws).
StatusOfChangedCycle ==
  lastDone.path = "update" =>
    LET ok == \/ lastDone.putAcked
              \/ testCreds
              \/ ~lastDone.dnsRecordAccessible
    IN /\ lastDone.endStatus = (IF ok THEN "active" ELSE "error")
       /\ status = lastDone.endStatus
       /\ lastDone.threw <=> ~ok

\* C11 witness: real credentials, the DNS read failed, the write failed: the
\* changed cycle still ended active.
FailedWriteMaskedByReadFailure ==
  /\ lastDone.path = "update"
  /\ ~lastDone.putAcked
  /\ ~testCreds
  /\ ~lastDone.dnsRecordAccessible
  /\ lastDone.endStatus = "active"

\* C12: a cycle whose IP detection failed ends with status error, has
\* appended exactly one entry, {oldIp: null, newIp: 'check_failed', status:
\* 'failed', dnsRecordUpdated: false}, now the newest of the history, has
\* issued no provider read and no provider write and has not written
\* lastKnownIp.
DetectionFailureRecorded ==
  (lastDone.id # 0 /\ lastDone.pc = "detect") =>
    /\ lastDone.threw
    /\ lastDone.endStatus = "error"
    /\ status = "error"
    /\ lastDone.appended = 1
    /\ Len(history) >= 1
    /\ history[1] = [oldIp |-> Null, newIp |-> "check_failed",
                     status |-> "failed", dnsRecordUpdated |-> FALSE]
    /\ lastDone.path = "none"
    /\ lastDone.dnsRecordIp = Null
    /\ ~lastDone.putIssued
    /\ ~lastDone.wroteIp
    /\ lastDone.endIp = config.lastKnownIp

\* C12 witness: detection failed in a cycle that ran after another cycle had
\* stored an address and an entry.
DetectionFailedAfterUpdate ==
  /\ lastDone.pc = "detect"
  /\ lastDone.threw
  /\ Len(history) >= 2
  /\ history[2].newIp \in IPs
  /\ config.lastKnownIp \in IPs

\* C13: a cycle whose DNS read failed is not ended by that failure: it
\* compares the detected address with the stored one only, and when they are
\* equal it ends with status active, no provider write and no entry.
DnsReadFailureTolerated ==
  /\ lastDone.pc = "dnsRead" => (~lastDone.threw /\ lastDone.path = "nochange")
  /\ \A c \in Observed :
       (Compared(c) /\ ~c.dnsRecordAccessible) =>
         /\ c.dnsRecordIp = Null
         /\ c.ipChanged <=> (c.config.lastKnownIp # c.currentIp)
         /\ c.path = (IF c.ipChanged THEN "update" ELSE "nochange")
         /\ ~c.ipChanged =>
              /\ c = lastDone
              /\ ~c.threw
              /\ c.endStatus = "active"
              /\ status = "active"
              /\ ~c.putIssued
              /\ c.appended = 0

\* C13 witness: the DNS read failed, stored = detected, the cycle ended
\* active without an entry.
DnsReadFailedNoChange ==
  /\ lastDone.path = "nochange"
  /\ ~lastDone.dnsRecordAccessible
  /\ lastDone.currentIp = lastDone.config.lastKnownIp
  /\ lastDone.endStatus = "active"
  /\ lastDone.appended = 0

\* C14: the stored history never holds more than 10 entries, and every
\* change of it puts the entries just appended in front, the one appended
\* last at the head, the earlier entries following in their old order (the
\* oldest dropped beyond the 10th place).
HistoryBoundedNewestFirst ==
  /\ [](Len(history) <= 10)
  /\ [][history' # history =>
         LET k == lastDone'.appended
             n == IF Len(history) + k > 10 THEN 10 ELSE Len(history) + k
         IN /\ k \in {1, 2}
            /\ Len(history') = n
            /\ \A i \in (k + 1)..n : history'[i] = history[i - k]
            /\ history'[k] = (IF lastDone'.updateEntry # NoEntry
                              THEN lastDone'.updateEntry
                              ELSE [oldIp |-> Null, newIp |-> "check_failed",
                                    status |-> "failed",
                                    dnsRecordUpdated |-> FALSE])
            /\ k = 2 => history'[1].newIp = "check_failed"]_vars

\* C14 witness: a cycle appended two entries to a history of 9: the history
\* holds 10, the two new entries in front, the oldest old entry dropped.
HistoryOverflowed ==
  /\ Len(history) = MaxHistory
  /\ lastDone.appended = 2
  /\ history[2] = lastDone.updateEntry
  /\ history[3] = OldHistory(MaxHistory - 1)[1]
  /\ history[MaxHistory] = OldHistory(MaxHistory - 1)[MaxHistory - 2]

\* The tokens of a string that are not white space.
NonBlank(str) == SelectSeq(str, LAMBDA t : t # Ws)

\* What a service answered with, <<>> if the request failed: the response
\* has status 200 and, for ipify and httpbin, is a JSON object whose ip
\* (origin) field is not blank, for the other services is not blank.
Answer(service, resp) ==
  IF resp.event # "end" \/ resp.statusCode # 200 THEN <<>>
  ELSE IF service \in {"ipify", "httpbin"}
  THEN IF resp.body.format = "json"
          /\ resp.body.field = (IF service = "ipify" THEN "ip" ELSE "origin")
       THEN NonBlank(resp.body.text)
       ELSE <<>>
  ELSE IF resp.body.format = "json" THEN <<"{json}">>
  ELSE NonBlank(resp.body.text)

\* C15: getCurrentIp() tries the services in their order: when it is at a
\* service, every service before it was tried and failed each time and no
\* service after it was contacted; the first answer is what it returns, at
\* once; after it returned no request is made until it is called again.
FirstAnsweringServiceWins ==
  /\ [](\A j \in 1..Len(det.services) :
         /\ (det.outcome # "idle" /\ j < det.idx) =>
              (det.requests[j] > 0 /\ det.failures[j] = det.requests[j])
         /\ j > det.idx => det.requests[j] = 0)
  /\ [][\A resp \in Responses :
         HttpSettles(resp) =>
           IF Answer(det.services[det.idx], resp) # <<>>
           THEN /\ det'.outcome = "returned"
                /\ det'.value = Answer(det.services[det.idx], resp)
                /\ det'.idx = det.idx
                /\ det'.failures[det.idx] = det.requests[det.idx]
           ELSE /\ det'.outcome # "returned"
                /\ det'.value = <<>>]_vars
  /\ [][det.outcome = "returned" =>
         (det'.outcome = "running" /\ \A j \in 1..Len(det.services) :
                                        det'.requests[j] = 0)]_vars

\* C15 witness: the first service failed on every attempt, the last time by
\* timeout, and the second answered 198.51.100.2.
FallbackAnswered ==
  /\ det.outcome = "returned"
  /\ det.idx = 2
  /\ det.lastError = "timeout"
  /\ det.failures[1] = det.requests[1]
  /\ det.value = <<"198.51.100.2">>

\* C16 as stated: a service that failed on every attempt received
\* MAX_RETRIES = 3 requests before the next one was tried.
\* (Violated: the loop runs for attempt = 0 .. MAX_RETRIES, 4 requests.)
ExhaustedAfterMaxRetries ==
  \A j \in 1..Len(det.services) :
    (j < det.idx \/ det.outcome = "raised") => det.requests[j] = MAX_RETRIES

\* C16 amended: a service that failed on every attempt received
\* MAX_RETRIES + 1 = 4 requests, the first attempt and MAX_RETRIES retries,
\* all rejected, before the next one was tried (or detection failed).
ExhaustedAfterAllAttempts ==
  \A j \in 1..Len(det.services) :
    /\ det.requests[j] <= 4
    /\ (j < det.idx \/ det.outcome = "raised") =>
         (det.requests[j] = 4 /\ det.failures[j] = 4)

\* C16 witness: detection went on to the second service after 4 rejected
\* requests to the first.
FellOverToSecond ==
  /\ det.outcome = "running"
  /\ det.idx = 2
  /\ det.requests[1] = MAX_RETRIES + 1
  /\ det.failures[1] = MAX_RETRIES + 1
  /\ det.requests[2] = 0

\* C17: getCurrentIp() throws exactly when every service was tried and
\* each of the attempts of each service failed; when a request was
\* answered, it returned what was answered and did not throw.
RaisesIffAllExhausted ==
  LET all == 1..Len(det.services)
  IN /\ det.outcome = "raised" =>
          /\ \A j \in all : det.requests[j] = MAX_RETRIES + 1
          /\ \A j \in all : det.failures[j] = det.requests[j]
          /\ det.value = <<>>
     /\ (\A j \in all : det.failures[j] = MAX_RETRIES + 1) =>
          det.outcome = "raised"
     /\ (\E j \in all : det.failures[j] < det.requests[j]) =>
          (det.outcome = "returned" /\ det.value # <<>>)

\* C17 witness: each of the four services failed on each of its attempts.
AllServicesFailed ==
  /\ det.outcome = "raised"
  /\ Len(det.services) = 4
  /\ \A j \in 1..4 : det.failures[j] = MAX_RETRIES + 1

\* C18: what getCurrentIp() returns is an IP address.
\* (Violated: httpRequest resolves with any non-blank body or field of a
\* 200 response; nothing tests that it is an address.)
ReturnsOnlyAddresses ==
  det.outcome = "returned" => (Len(det.value) = 1 /\ det.value[1] \in IPs)

\* C19: the PUT carries the type, name, ttl and proxied of the record the
\* lookup gave and the new address as content, and the record the provider
\* holds after an acknowledged write differs from the one read in content
\* only.
\* (Violated: a record read without proxied is written with proxied: false.)
WritePreservesRecord ==
  cf.sent =>
    /\ cf.payload.content = cf.newIp
    /\ cf.payload.type = cf.read.type
    /\ cf.payload.name = cf.read.name
    /\ cf.payload.ttl = cf.read.ttl
    /\ cf.payload.proxied = cf.read.proxied
    /\ cf.acked => cf.record = [cf.read EXCEPT !.content = cf.newIp]

\* C20: updateDnsRecord() never throws; it returns true exactly when the
\* provider acknowledged the PUT with success, and false after a failed
\* lookup, a missing record, a refused PUT, a timeout or a transport error.
UpdateDnsRecordNeverRaises ==
  /\ cf.returned \in {"none", "true", "false"}
  /\ cf.pc = "done" <=> cf.returned \in {"true", "false"}
  /\ cf.returned = "true" <=> (cf.pc = "done" /\ cf.sent /\ cf.acked)
  /\ cf.returned = "true" => cf.record.content = cf.newIp
  /\ (cf.pc = "done" /\ cf.cause \in {"lookup failed", "not found", "refused",
                                       "timeout", "error", "invalid"}) =>
       cf.returned = "false"

\* C20 witness: the provider answered the PUT without success.
RefusedPutReturnsFalse ==
  /\ cf.pc = "done"
  /\ cf.sent
  /\ cf.cause = "refused"
  /\ cf.returned = "false"
  /\ cf.record.content # cf.newIp

\* C21: getDnsRecord() throws when the provider answers with error code
\* 10001 or 7003, and returns null without throwing exactly when the
\* provider holds no matching record.
NullExactlyWhenNoRecord ==
  [][\A resp \in ApiResponses :
       LookupSettles(resp) =>
         LET g == GetDnsRecord(resp, cf.record)
         IN /\ (resp.event = "end" /\ resp.code \in {10001, 7003}) => g.thrown
            /\ (resp.event = "end" /\ resp.success /\ cf.record = NoRecord) =>
                 (~g.thrown /\ g.record = NoRecord)
            /\ (~g.thrown /\ g.record = NoRecord) => cf.record = NoRecord]_vars

\* C23: a settings update that changes the interval cancels no cycle in
\* flight, starts no cycle and leaves the pending timer armed as it was.
SettingsLeaveScheduleAlone ==
  [][(\E m \in IntervalChoices : PutSettings(m)) =>
       /\ \A c \in cycles : \E d \in cycles' : d.id = c.id
       /\ \A d \in cycles' : \E c \in cycles : c.id = d.id
       /\ timers' = timers
       /\ interval' = interval]_vars

\* C24: a force check that arrives right after an accepted force check has
\* ended, with no time elapsed, is refused and runs no cycle.
ForceCheckCooldown ==
  [][(lastDone.origin = "force" /\ ForceCheck) =>
       /\ cycles' = cycles
       /\ nextCycle' = nextCycle
       /\ forceResult' # NoResult]_vars

\* C25: status is active initially, checking while a cycle is in flight,
\* and active or error, as the cycle that ended last left it, while none is.
StatusFollowsFlight ==
  /\ (nextCycle = 1 /\ cycles = {}) => status = "active"
  /\ cycles # {} => status = "checking"
  /\ cycles = {} => status \in {"active", "error"}
  /\ (cycles = {} /\ lastDone # NoCycle) => status = lastDone.endStatus

\* C22: every delay scheduleNextCheck computes comes from a
\* checkIntervalMinutes that is an integer in 1..60, whether the value was
\* written at startup from CHECK_INTERVAL_MINUTES or by PUT /api/settings.
IntervalInRangeWhenScheduled ==
  \A t \in timers : \E m \in 1..60 : t.delay = m * 60 * 1000

\* C28: with a missing or a placeholder credential the service starts and
\* keeps checking, and a cycle whose provider write failed under a
\* placeholder credential ends with status active.
DegradedNotFatal ==
  /\ (proc.missing \/ testCreds) => proc.phase # "exited"
  /\ \A c \in Observed :
       (testCreds /\ c.ipChanged /\ ~c.dnsUpdateSuccess
          /\ c.endStatus # "none") => c.endStatus = "active"

\* C26: a cycle in which a storage call failed stopped at that call and
\* ended with status error: after a failed readConfig no comparison was
\* made, after a failed updateLastKnownIp no address was stored and no
\* provider write was issued, after a failed addUpdateEntry the cycle
\* appended nothing but the failure entry.
StorageFailureStopsCycle ==
  \A c \in Observed :
    c.storageFailed # "none" =>
      /\ c \notin cycles
      /\ c.threw
      /\ c.endStatus = "error"
      /\ status = "error"
      /\ c.storageFailed = "readConfig" =>
           (c.pc = "detect" /\ c.config = NoConfig /\ c.path = "none")
      /\ c.storageFailed = "updateLastKnownIp" =>
           (c.pc = "dnsRead" /\ ~c.wroteIp /\ ~c.putIssued)
      /\ c.storageFailed = "addUpdateEntry" =>
           (c.updateEntry # NoEntry /\ c.appended <= 1 /\
              (c.appended = 1 => history[1] = FailedEntry))

\* C26 witness: persisting the new address failed in a cycle that found a
\* change.
PersistFailedBeforeWrite ==
  /\ lastDone # NoCycle
  /\ lastDone.storageFailed = "updateLastKnownIp"
  /\ lastDone.ipChanged
  /\ lastDone.currentIp # lastDone.config.lastKnownIp
  /\ ~lastDone.putIssued

\* C27: a settings update and a cycle's write of lastKnownIp never undo
\* each other: the settings update stores its interval and keeps the
\* stored address, the cycle stores its address and keeps the stored
\* interval, and no step changes both fields.
NoLostUpdate ==
  [][/\ \A m \in IntervalChoices :
          PutSettings(m) =>
            /\ config'.checkIntervalMinutes = m
            /\ config'.lastKnownIp = config.lastKnownIp
     /\ \A c \in cycles :
          (DnsReadDone(c) /\ \E d \in cycles' : d.id = c.id /\ d.wroteIp) =>
            /\ config'.lastKnownIp = c.currentIp
            /\ config'.checkIntervalMinutes = config.checkIntervalMinutes
     /\ \/ config'.checkIntervalMinutes = config.checkIntervalMinutes
        \/ config'.lastKnownIp = config.lastKnownIp]_vars

\* C27 witness: a cycle read the configuration, a settings update changed
\* the interval while the cycle awaited the DNS read, then the cycle stored
\* a new address; the configuration holds both.
SettingsAndAddressBothKept ==
  \E c \in cycles :
    /\ c.pc = "updLookup"
    /\ c.wroteIp
    /\ c.config.checkIntervalMinutes = DefaultInterval
    /\ c.config.lastKnownIp # c.currentIp
    /\ config.checkIntervalMinutes = 5
    /\ config.lastKnownIp = c.currentIp

\* What C29 says a response carries for a stored value: null and
\* 'check_failed' as they are, an IPv4 address with its two middle octets
\* replaced by 'xxx'.
Carried(ip) ==
  IF ip \in {Null, "check_failed"} THEN <<ip>>
  ELSE <<Split(ip)[1], "xxx", "xxx", Split(ip)[Len(Split(ip))]>>

\* C29: the responses of /api/status, /api/history and /api/force-update
\* carry no full address: every IPv4 address has its two middle octets
\* replaced by 'xxx', null and 'check_failed' pass through unchanged.
ResponsesCarryNoFullIp ==
  /\ StatusResponse.currentIp = Carried(config.lastKnownIp)
  /\ \A i \in 1..Len(history) :
       /\ HistoryResponse[i].oldIp = Carried(history[i].oldIp)
       /\ HistoryResponse[i].newIp = Carried(history[i].newIp)
  /\ forceResult.message # "none" =>
       ForceUpdateResponse(forceResult).currentIp =
         Carried(forceResult.currentIp)

\* C30: in one 15-minute window the limiter hands at most maxRequests
\* requests of a client to the handlers and answers every further request
\* of that window with 429; a request after the window's reset time opens
\* a new window with count 1.
WindowPassesAtMostMaxRequests ==
  /\ [](\A c \in Clients :
          /\ rl.passed[c] <= MaxRequests
          /\ rl.store[c] # NoEntryFor =>
               /\ rl.store[c].count = rl.passed[c]
               /\ rl.store[c].resetTime = rl.window[c].start + WindowMs)
  /\ [](rl.verdict = "429" =>
          /\ rl.passed[rl.client] = MaxRequests
          /\ rl.now <= rl.window[rl.client].start + WindowMs
          /\ rl.retryAfter * 1000 >=
               rl.window[rl.client].start + WindowMs - rl.now)
  /\ [][\A c \in Clients :
          Request(c) =>
            LET w == rl.window[c]
            IN /\ (w.open /\ rl.now <= w.start + WindowMs
                     /\ rl.passed[c] = MaxRequests) =>
                    (rl'.verdict = "429" /\ rl'.store[c] = rl.store[c])
               /\ (w.open /\ rl.now > w.start + WindowMs) =>
                    /\ rl'.verdict = "next"
                    /\ rl'.store[c] = [count |-> 1,
                                       resetTime |-> rl.now + WindowMs]]_vars

\* C30 witness: the first client was refused in its first window and has
\* opened a second one.
RefusedThenNewWindow ==
  /\ rl.client = "client1"
  /\ rl.sent["client1"] = MaxRequests + 2
  /\ rl.window["client1"].start > WindowMs
  /\ rl.passed["client1"] = 1
  /\ rl.verdict = "next"
  /\ rl.store["client1"].count = 1

\* C31: the history is an append and trim log.  Whenever it changes, one
\* or two entries were put in front, every stored entry that is kept has
\* the field values it had and follows in the old order, and the entries
\* that left are the oldest ones, pushed beyond the 10th place.
HistoryEntriesImmutable ==
  [][history' # history =>
       \E k \in {1, 2} :
         LET kept == Len(history') - k
         IN /\ Len(history') =
                 (IF Len(history) + k > MaxHistory THEN MaxHistory
                  ELSE Len(history) + k)
            /\ \A i \in 1..kept : history'[i + k] = history[i]
            /\ \A i \in 1..Len(history) :
                 i > kept => Len(history) + k > MaxHistory]_vars

\* C31 witness: one entry was appended to a history at the limit; the nine
\* newest old entries follow it unchanged, the oldest one is gone.
OldestEntryTrimmed ==
  /\ Len(history) = MaxHistory
  /\ lastDone.appended = 1
  /\ \A i \in 1..(MaxHistory - 1) : history[i + 1] = OldHistory(MaxHistory)[i]

\* The kind of failure of one attempt against a service, "none" when the
\* response carries an address: timeout, transport error, a status other
\* than 200, an empty body (or field), a malformed body.
FailureKind(service, resp) ==
  IF resp.event # "end" THEN resp.event
  ELSE IF resp.statusCode # 200 THEN "status"
  ELSE LET text == IF service \in {"ipify", "httpbin"}
                   THEN IF resp.body.format = "json"
                           /\ resp.body.field =
                                (IF service = "ipify" THEN "ip" ELSE "origin")
                        THEN NonBlank(resp.body.text)
                        ELSE <<"malformed">>
                   ELSE IF resp.body.format = "json" THEN <<"malformed">>
                   ELSE NonBlank(resp.body.text)
       IN IF text = <<>> THEN "empty"
          ELSE IF Len(text) = 1 /\ text[1] \in IPs THEN "none"
          ELSE "malformed"

\* C32: an attempt that fails, whatever the kind of failure, counts as one
\* failed attempt against its service and is followed by what follows any
\* failed attempt: the next attempt while retries are left, else the next
\* service, else the error.
FailuresTreatedAlike ==
  [][\A resp \in Responses :
       (HttpSettles(resp)
          /\ FailureKind(det.services[det.idx], resp) # "none") =>
         /\ det'.failures[det.idx] = det.failures[det.idx] + 1
         /\ det'.outcome # "returned"
         /\ RetryAgain(det.attempt) =>
              (det'.idx = det.idx /\ det'.attempt = det.attempt + 1)
         /\ (~RetryAgain(det.attempt) /\ HasNextService(det)) =>
              (det'.idx = det.idx + 1 /\ det'.attempt = 0)
         /\ (~RetryAgain(det.attempt) /\ ~HasNextService(det)) =>
              det'.outcome = "raised"]_vars

\* C33: a cycle whose DNS read succeeded and gave no record finds a change,
\* also when the detected address is the stored one: it takes the update
\* branch, calls updateDnsRecord and, once it has ended, has appended its
\* entry to the history.
AbsentRecordAlwaysChanged ==
  \A c \in Observed :
    (Compared(c) /\ c.dnsRecordAccessible /\ c.dnsRecordIp = Null) =>
      /\ c.ipChanged
      /\ c.path = "update"
      /\ c.wroteIp
      /\ c.pc \in {"updLookup", "updPut"}
      /\ c.endStatus # "none" =>
           /\ c.updateEntry # NoEntry
           /\ c.updateEntry.newIp = c.currentIp
           /\ c.appended >= 1
           /\ history[c.appended] = c.updateEntry

\* C33 witness: the detected address was the stored one, the record was
\* absent, and the cycle ended with an entry for the unchanged address.
AbsentRecordSameAddress ==
  /\ lastDone # NoCycle
  /\ lastDone.dnsRecordAccessible
  /\ lastDone.dnsRecordIp = Null
  /\ lastDone.config.lastKnownIp = lastDone.currentIp
  /\ lastDone.ipChanged
  /\ history # <<>>
  /\ lastDone.updateEntry.newIp = lastDone.currentIp

\* C34: at most one timer is armed at any time, and it is the one the
\* interval field refers to.
OneTimerHeldByInterval ==
  /\ Cardinality(timers) <= 1
  /\ \A t \in timers : t.id = interval

\* C35: every way a cycle can end clears isChecking, so with no cycle in
\* flight the flag is clear and a forceCheck() is accepted: it starts a
\* cycle and is not answered 'Check already in progress'.
FlagClearedOnEveryExit ==
  /\ [](lastDone # NoCycle => ~isChecking)
  /\ [](cycles = {} => ~isChecking)
  /\ [][(ForceCheck /\ cycles = {}) =>
          /\ forceResult' # InProgressResult
          /\ \E c \in cycles' : c.origin = "force"]_vars

\* C35 witness: a cycle was left by the throw of a failed storage write
\* after its provider write; no cycle is in flight and the flag is clear.
FlagClearAfterStorageFailure ==
  /\ cycles = {}
  /\ lastDone.threw
  /\ lastDone.storageFailed = "addUpdateEntry"
  /\ lastDone.putIssued
  /\ ~isChecking

\* C36: once detection gives the one address and the provider's reads and
\* writes succeed for good, the running engine eventually brings the DNS
\* record to the detected address, also when the address is already stored
\* as lastKnownIp by a cycle whose provider write failed.
Converges == (env.faults = {}) ~> (dnsRecord \in env.ips)

\* C36 witness: a cycle stored the address and its write failed; after the
\* recovery a later cycle, for which stored and detected address were equal,
\* wrote the record.
ConvergedAfterFailedWrite ==
  /\ env.faults = {}
  /\ lastDone # NoCycle
  /\ lastDone.config.lastKnownIp = lastDone.currentIp
  /\ lastDone.putAcked
  /\ dnsRecord = lastDone.currentIp
  /\ Len(history) >= 3
  /\ history[1].status = "success"
  /\ history[3].status = "failed"
  /\ history[3].dnsRecordUpdated = FALSE
  /\ history[3].newIp = dnsRecord

\* C37: forceCheck() leaves the pending timer alone: neither the call nor
\* any step of the cycle it runs, its end included, changes the set of
\* armed timers, their delays, or the timer the interval field refers to.
ForceCheckKeepsTimer ==
  [][(\/ ForceCheck
      \/ \E c \in cycles :
           /\ c.origin = "force"
           /\ \/ DetectDone(c)
              \/ DnsReadDone(c)
              \/ UpdLookupDone(c)
              \/ UpdPutDone(c)) =>
       (timers' = timers /\ interval' = interval)]_vars

\* C37 witness: a forced cycle has ended while the timer armed before it
\* is still armed and still the one the interval field refers to.
ForcedCycleEndedTimerArmed ==
  /\ lastDone.origin = "force"
  /\ lastDone.endStatus # "none"
  /\ \E t \in timers : t.id = interval /\ t.id < lastDone.id

\* C38: the result of an accepted forceCheck() has success = true, the
\* cycle's ipChanged and the detected address exactly when its cycle ended
\* with status active, and success = false, ipChanged = false and
\* currentIp = null exactly when the cycle ended with status error.
ForceResultMatchesCycle ==
  (lastDone.origin = "force" /\ lastDone.endStatus # "none") =>
    /\ lastDone.endStatus \in {"active", "error"}
    /\ forceResult.success <=> lastDone.endStatus = "active"
    /\ forceResult.success =>
         /\ forceResult.ipChanged = lastDone.ipChanged
         /\ forceResult.currentIp = lastDone.currentIp
         /\ forceResult.currentIp # Null
    /\ ~forceResult.success =>
         /\ ~forceResult.ipChanged
         /\ forceResult.currentIp = Null

\* C38 witness: the forced cycle stored a new address, its provider write
\* failed and it ended with status error; the result carries no address.
ForcedCycleFailedAfterPersist ==
  /\ lastDone.origin = "force"
  /\ lastDone.endStatus = "error"
  /\ lastDone.wroteIp
  /\ lastDone.putIssued
  /\ ~lastDone.putAcked
  /\ config.lastKnownIp = lastDone.currentIp
  /\ ~forceResult.success
  /\ forceResult.currentIp = Null

\* C39: what getNextCheckTime() returns is the instant at which the armed
\* timer, the one the interval field refers to, fires.
NextCheckIsTimerDeadline ==
  \A t \in timers :
    t.id = interval => GetNextCheckTime(config, rl.now) = t.at + t.delay

\* C40: a settings update that is rejected (answered 400: unknown key, wrong
\* type, interval outside [1, 60], theme other than light/dark) leaves the
\* stored configuration as it was and neither stops nor starts the engine
\* nor arms or clears a timer.
RejectedSettingsChangeNothing ==
  [][\A body \in SettingsBodies :
       PutSettingsRequest(body) /\ proc'.settingsResponse = 400
         => UNCHANGED <<config, timers, interval, cycles, isChecking,
                        status, stopped, nextCycle>>]_vars

\* An interval of 61 was refused while a timer was pending and after the
\* settings had been changed by an earlier request.
RejectedWhileTimerPending ==
  /\ proc.settingsResponse = 400
  /\ proc.settingsError = "interval"
  /\ timers # {}
  /\ config.theme = "dark"
  /\ config.checkIntervalMinutes = 5

====
